---- MODULE Spec2Model ----
(***************************************************************************)
(* ChainMind decision cycle: DecisionEngine.evaluateAndExecute and the     *)
(* functions it calls (ai-agent/src/engine/DecisionEngine.ts), the oracle  *)
(* adapter's own validation (ai-agent/src/agent/AIAgent.ts) and the chain  *)
(* client's transaction result.                                            *)
(*                                                                         *)
(* A JavaScript object is a function whose DOMAIN is the set of fields     *)
(* that are present; a string that the code parses is a sequence of        *)
(* one-character strings.  Numbers with a fraction are kept as integers:   *)
(* confidence in hundredths, parsed amounts in thousandths.  An async      *)
(* function is cut at every await: one action runs from one await to the   *)
(* next, as the single-threaded event loop does.                           *)
(***************************************************************************)
EXTENDS Integers, Sequences, FiniteSets, TLC

(***************************************************************************)
(* Bounds of the model.                                                    *)
(***************************************************************************)
\* the ledger keeps this many records (1000 in DecisionEngine.ts:253-254)
HistoryLimit == 2
\* the clock Date.now() runs over 0..MaxTime
MaxTime == 1
\* Math.random() suffixes of a decision id are drawn from 1..MaxRand
MaxRand == 1
\* (chain, asset) pairs of the market snapshot that are collected
MaxPairs == 1
\* supported tokens of the vault whose balances are read
MaxTokens == 1
\* the clock of the monitor advances at most this many times
MaxClock == 2
\* chains whose market data the monitor caches
MaxChains == 1
\* tokens per chain whose market data the monitor caches
MaxCacheTokens == 2
\* records handed to recordDecision
MaxAppends == 4
\* records of a ledger that getStats is applied to
MaxStatRecords == 3

(***************************************************************************)
(* Program constants.                                                      *)
(***************************************************************************)
\* decision.confidence < 0.7, in hundredths
ConfidenceFloor == 70
\* parseFloat(decision.amount) < 100
MinAmount == 100

(***************************************************************************)
(* Strings as character sequences, and parseFloat.                         *)
(***************************************************************************)
Digits == {"0", "1", "2", "3", "4", "5", "6", "7", "8", "9"}

DigitVal(c) ==
    CASE c = "0" -> 0 [] c = "1" -> 1 [] c = "2" -> 2 [] c = "3" -> 3
      [] c = "4" -> 4 [] c = "5" -> 5 [] c = "6" -> 6 [] c = "7" -> 7
      [] c = "8" -> 8 [] c = "9" -> 9

\* index of the first character at or after i that is not white space
RECURSIVE SkipSpace(_, _)
SkipSpace(s, i) ==
    IF i <= Len(s) /\ s[i] = " " THEN SkipSpace(s, i + 1) ELSE i

\* index just after the run of digits that starts at i
RECURSIVE DigitsEnd(_, _)
DigitsEnd(s, i) ==
    IF i <= Len(s) /\ s[i] \in Digits THEN DigitsEnd(s, i + 1) ELSE i

\* value of the digits s[i..j-1] read as a decimal integer
RECURSIVE IntValue(_, _, _)
IntValue(s, i, j) ==
    IF j <= i THEN 0 ELSE IntValue(s, i, j - 1) * 10 + DigitVal(s[j - 1])

\* the first three fraction digits s[i..j-1] as thousandths
FracMilli(s, i, j) ==
    LET d(k) == IF i + k < j THEN DigitVal(s[i + k]) ELSE 0
    IN  d(0) * 100 + d(1) * 10 + d(2)

NaN == [nan |-> TRUE, milli |-> 0]

\* JavaScript parseFloat on a string without exponent: leading white space,
\* an optional sign, digits, an optional fraction; the longest such prefix
\* is the value and a prefix without any digit is NaN.
parseFloat(s) ==
    LET a    == SkipSpace(s, 1)
        neg  == a <= Len(s) /\ s[a] = "-"
        b    == IF a <= Len(s) /\ s[a] \in {"-", "+"} THEN a + 1 ELSE a
        c    == DigitsEnd(s, b)
        dot  == c <= Len(s) /\ s[c] = "."
        e    == IF dot THEN DigitsEnd(s, c + 1) ELSE c
        mag  == IntValue(s, b, c) * 1000
                  + (IF dot THEN FracMilli(s, c + 1, e) ELSE 0)
    IN  IF c = b /\ (~dot \/ e = c + 1)
        THEN NaN
        ELSE [nan |-> FALSE, milli |-> IF neg THEN 0 - mag ELSE mag]

\* x < n in JavaScript for a parsed number x: false when x is NaN
NumLess(x, n) == ~x.nan /\ x.milli < n * 1000

(***************************************************************************)
(* Decisions.                                                              *)
(***************************************************************************)
Has(d, f) == f \in DOMAIN d

\* a JavaScript object without fields
EmptyObject == [f \in {} |-> {}]

\* JavaScript truthiness of a field held as a character sequence
Truthy(d, f) == Has(d, f) /\ d[f] # <<>>

\* JavaScript truthiness of a field held as an atom ("" is the empty string)
TruthyAtom(d, f) == Has(d, f) /\ d[f] # ""

validActions == {"rebalance", "hold", "bridge", "lend", "swap"}

\* validateDecision with the confidence floor itself rejected
validateDecision_FloorExcluded(decision) ==
    IF decision.confidence <= ConfidenceFloor
    THEN FALSE
    ELSE IF decision.action \notin validActions
    THEN FALSE
    ELSE IF Truthy(decision, "amount")
              /\ NumLess(parseFloat(decision.amount), MinAmount)
    THEN FALSE
    ELSE TRUE

\* validateDecision without the test of the amount
validateDecision_NoAmountTest(decision) ==
    IF decision.confidence < ConfidenceFloor
    THEN FALSE
    ELSE IF decision.action \notin validActions
    THEN FALSE
    ELSE TRUE

\* DecisionEngine.validateDecision
validateDecision(decision) ==
    IF decision.confidence < ConfidenceFloor
    THEN FALSE
    ELSE IF decision.action \notin validActions
    THEN FALSE
    ELSE IF Truthy(decision, "amount")
              /\ NumLess(parseFloat(decision.amount), MinAmount)
    THEN FALSE
    ELSE TRUE

\* validateRebalanceDecision without the action-specific validation
validateRebalanceDecision_NoFieldTest(decision) ==
    IF ~TruthyAtom(decision, "action") \/ ~TruthyAtom(decision, "reason")
          \/ ~Has(decision, "confidence")
    THEN FALSE
    ELSE IF decision.confidence < 0 \/ decision.confidence > 100
    THEN FALSE
    ELSE TRUE

\* AIAgent.validateRebalanceDecision
validateRebalanceDecision(decision) ==
    IF ~TruthyAtom(decision, "action") \/ ~TruthyAtom(decision, "reason")
          \/ ~Has(decision, "confidence")
    THEN FALSE
    ELSE IF decision.confidence < 0 \/ decision.confidence > 100
    THEN FALSE
    ELSE IF decision.action \in {"rebalance", "bridge"}
              /\ (~TruthyAtom(decision, "fromChain")
                    \/ ~TruthyAtom(decision, "toChain")
                    \/ ~TruthyAtom(decision, "token")
                    \/ ~Truthy(decision, "amount"))
    THEN FALSE
    ELSE TRUE

\* the fields every decision of the model carries
Base(action, confidence) ==
    [action |-> action, reason |-> "r", confidence |-> confidence]

\* the chain and token fields
Route == [fromChain |-> "ethereum", toChain |-> "polygon", token |-> "USDC"]

WithAmount(d, amount) == d @@ [amount |-> amount]

\* the answers of the language model in the cycle
OracleDecisions ==
    { Base("hold", 90),
      WithAmount(Base("rebalance", 50) @@ Route, <<"1", "5", "0">>),
      WithAmount(Base("rebalance", 90) @@ Route, <<"1", "5", "0">>),
      WithAmount(Base("swap", 90) @@ Route, <<"5", "0">>),
      Base("bridge", 90) @@ Route,
      Base("stake", 90) @@ Route }

\* amount strings given to the validator: "", "0", "50", "99.9", "100",
\* "150", "abc", "-5", " 100"
ProbeAmounts ==
    { <<>>, <<"0">>, <<"5", "0">>, <<"9", "9", ".", "9">>,
      <<"1", "0", "0">>, <<"1", "5", "0">>, <<"a", "b", "c">>,
      <<"-", "5">>, <<" ", "1", "0", "0">> }

ProbeActions == validActions \cup {"stake"}

ProbeConfidences == {0, 50, 69, 70, 71, 100}

\* the decisions the oracle adapter hands to the validator: those that
\* pass its own validateRebalanceDecision
ProbeDecisions ==
    LET plain == {Base(a, k) @@ Route :
                     a \in ProbeActions, k \in ProbeConfidences}
        raw   == plain \cup {WithAmount(d, m) :
                                d \in plain, m \in ProbeAmounts}
    IN  {d \in raw : validateRebalanceDecision(d)}

(***************************************************************************)
(* State.                                                                  *)
(***************************************************************************)
\* the triggers that call DecisionEngine.evaluateAndExecute: the cron job
\* and the manual HTTP route (through the monitor), the whale webhook
Callers == {"cron", "manual", "whale"}

VARIABLES
    isExecuting,      \* DecisionEngine.isExecuting
    decisionHistory,  \* DecisionEngine.decisionHistory
    env,              \* process.env: which addresses are configured
    now,              \* Date.now()
    pc,               \* per caller: the await its call is suspended at
    loc,              \* per caller: the local variables of its call
    last,             \* the call that completed most recently
    probe,            \* a decision and the validator's answer to it
    isActive,               \* StrategyMonitor.isActive
    emergencyStopActivated, \* StrategyMonitor.emergencyStopActivated
    lastEvaluation,         \* StrategyMonitor.lastEvaluation
    marketDataCache,        \* StrategyMonitor.marketDataCache
    mpc,              \* per trigger: the await its monitor call is suspended at
    upd,              \* the position of a running updateMarketData
    mlast,            \* the monitor call that completed most recently
    lastAttempt,      \* when a monitor call last came back from the engine
    lastCall,         \* when a monitor call last called the engine
    appended,         \* every record handed to recordDecision, in order
    query             \* the last ledger query and its answer

\* the variables of the strategy monitor and of its observer
monitorVars == <<isActive, emergencyStopActivated, lastEvaluation,
                 marketDataCache, mpc, upd, mlast, lastAttempt,
                 lastCall>>

\* the variables of the observer of the ledger
ledgerVars == <<appended, query>>

vars == <<isExecuting, decisionHistory, env, now, pc, loc, last, probe,
          monitorVars, ledgerVars>>

NoDecision == [none |-> TRUE]

\* the locals of a call; the last five are kept for the observer: the
\* collaborators the call has invoked, the ledger at its entry, whether
\* another call was suspended in its cycle at its entry, and the pairs
\* and tokens for which a fetch failed
NoLocals ==
    [idx |-> 0, marketData |-> {}, nTokens |-> 0, tIdx |-> 0,
     tokenBalances |-> {}, decision |-> NoDecision,
     decisionId |-> <<>>, timestamp |-> 0,
     api |-> {}, histAtCall |-> <<>>, busyAtCall |-> FALSE,
     failedPairs |-> {}, failedTokens |-> {}]

NoCall == [kind |-> "none"]

NoProbe == [asked |-> FALSE]

\* the positions at which a started cycle is suspended
CyclePcs == {"tokenData", "lendingRates", "vaultInfo", "tokenBalance",
             "oracle", "submit"}

\* the engine after its constructor (DecisionEngine.ts:38-47)
InitEngine ==
    /\ isExecuting = FALSE
    /\ decisionHistory = <<>>
    /\ env \in [vault : BOOLEAN, executor : BOOLEAN]
    /\ now = 0
    /\ pc = [c \in Callers |-> "idle"]
    /\ loc = [c \in Callers |-> NoLocals]
    /\ last = NoCall

\* the triggers that call StrategyMonitor.evaluateAndExecute: the cron job
\* and the manual HTTP route
Triggers == {"cron", "manual"}

NoMonitorCall == [kind |-> "none"]

NoQuery == [kind |-> "none"]

\* the monitor after its constructor (StrategyMonitor.ts:25-34), with no
\* call of it under way
InitMonitor ==
    /\ isActive = FALSE
    /\ emergencyStopActivated = FALSE
    /\ lastEvaluation = 0
    /\ marketDataCache = EmptyObject
    /\ mpc = [t \in Triggers |-> [at |-> "idle"]]
    /\ upd = [at |-> "idle"]
    /\ mlast = NoMonitorCall
    /\ lastAttempt = 0
    /\ lastCall = 0

\* nothing has been recorded or asked of the ledger
InitLedgerObserver ==
    /\ appended = <<>>
    /\ query = NoQuery

Init ==
    /\ InitEngine
    /\ probe = NoProbe
    /\ InitMonitor
    /\ InitLedgerObserver

(***************************************************************************)
(* The ledger.                                                             *)
(***************************************************************************)
\* slice that keeps the oldest n elements
SliceLast_Oldest(h, n) ==
    IF Len(h) <= n THEN h ELSE SubSeq(h, 1, n)

\* Array.prototype.slice(-n)
SliceLast(h, n) ==
    IF Len(h) <= n THEN h ELSE SubSeq(h, Len(h) - n + 1, Len(h))

\* recordDecision that keeps successful executions only
recordDecision_SuccessOnly(h, decision, marketContext, executionResult) ==
    LET record == [id |-> executionResult.decisionId,
                   decision |-> decision,
                   executionResult |-> executionResult,
                   timestamp |-> executionResult.timestamp,
                   marketContext |-> marketContext]
        pushed == IF executionResult.success THEN Append(h, record) ELSE h
    IN  IF Len(pushed) > HistoryLimit
        THEN SliceLast(pushed, HistoryLimit)
        ELSE pushed

\* DecisionEngine.recordDecision
recordDecision(h, decision, marketContext, executionResult) ==
    LET record == [id |-> executionResult.decisionId,
                   decision |-> decision,
                   executionResult |-> executionResult,
                   timestamp |-> executionResult.timestamp,
                   marketContext |-> marketContext]
        pushed == Append(h, record)
    IN  IF Len(pushed) > HistoryLimit
        THEN SliceLast(pushed, HistoryLimit)
        ELSE pushed

\* DecisionEngine.generateDecisionId
generateDecisionId(t, r) == <<"decision", t, r>>

\* Math.round(x * 100) / 100 of the quotient x = num / den, den > 0, in
\* hundredths: the nearest hundredth, a half rounded up
RoundRatio(num, den) == (2 * 100 * num + den) \div (2 * den)

\* the fold of lines 302-306 over the records h[i..Len(h)], from counts
RECURSIVE CountActions(_, _, _)
CountActions(h, i, counts) ==
    IF i > Len(h) THEN counts
    ELSE LET action == h[i].decision.action
             old    == IF action \in DOMAIN counts THEN counts[action] ELSE 0
         IN  CountActions(h, i + 1,
                 [a \in DOMAIN counts \cup {action} |->
                     IF a = action THEN old + 1 ELSE counts[a]])

\* getStats with a success rate that is cut off after two decimals
getStats_Truncated(h) ==
    LET totalDecisions == Len(h)
        successfulDecisions ==
            Len(SelectSeq(h, LAMBDA d : d.executionResult.success))
    IN  [totalDecisions |-> totalDecisions,
         successfulDecisions |-> successfulDecisions,
         successRate |-> IF totalDecisions > 0
                         THEN (100 * 100 * successfulDecisions)
                                 \div totalDecisions
                         ELSE 0,
         actionCounts |-> CountActions(h, 1, EmptyObject)]

\* DecisionEngine.getStats, of the ledger h; successRate is in hundredths
\* of a percent (the field isExecuting is not of the ledger and left out)
getStats(h) ==
    LET totalDecisions == Len(h)
        successfulDecisions ==
            Len(SelectSeq(h, LAMBDA d : d.executionResult.success))
    IN  [totalDecisions |-> totalDecisions,
         successfulDecisions |-> successfulDecisions,
         successRate |-> IF totalDecisions > 0
                         THEN RoundRatio(100 * successfulDecisions,
                                         totalDecisions)
                         ELSE 0,
         actionCounts |-> CountActions(h, 1, EmptyObject)]

\* Array.prototype.slice(start): from index start, counted from the end
\* when it is negative
Slice(h, start) ==
    LET from == IF start < 0
                THEN (IF Len(h) + start < 0 THEN 0 ELSE Len(h) + start)
                ELSE (IF start > Len(h) THEN Len(h) ELSE start)
    IN  SubSeq(h, from + 1, Len(h))

\* Array.prototype.reverse, on the copy that slice has made
Reverse(h) == [i \in 1..Len(h) |-> h[Len(h) - i + 1]]

\* DecisionEngine.getDecisionHistory
getDecisionHistory(h, limit) == Reverse(Slice(h, 0 - limit))

(***************************************************************************)
(* The ways a call of evaluateAndExecute completes.                        *)
(***************************************************************************)
\* the value of a call that produced no ExecutionResult
NoResult == [none |-> TRUE]

\* what the observer keeps of a completed call: how it completed (kind:
\* "result", "null" or "throw"), at which place of the code (why), the
\* oracle adapter's answer and the result if there were any, and the
\* observations made in its locals
Completed(kind, why, decision, result, locals) ==
    [kind |-> kind, why |-> why, decision |-> decision,
     result |-> result, api |-> locals.api,
     totalBefore |-> Len(locals.histAtCall),
     busyAtCall |-> locals.busyAtCall]

\* the call of c resolves or rejects; h is the ledger it leaves
Complete(c, kind, why, decision, result, h) ==
    /\ pc' = [pc EXCEPT ![c] = "idle"]
    /\ loc' = [loc EXCEPT ![c] = NoLocals]
    /\ last' = Completed(kind, why, decision, result, loc[c])
    /\ decisionHistory' = h

\* a cycle whose exit leaves the flag as it is
Finally_Skipped == UNCHANGED isExecuting

\* DecisionEngine.evaluateAndExecute, lines 99-101: finally
Finally == isExecuting' = FALSE

\* an early return that leaves the flag set
ReturnNull_NoReset(c, why, decision) ==
    /\ Complete(c, "null", why, decision, NoResult, decisionHistory)
    /\ UNCHANGED isExecuting

\* return null at line 75 or 81
ReturnNull(c, why, decision) ==
    /\ Complete(c, "null", why, decision, NoResult, decisionHistory)
    /\ Finally

\* a catch that swallows the error and returns null
Throw_Swallowed(c, why) ==
    /\ Complete(c, "null", why, NoDecision, NoResult, decisionHistory)
    /\ Finally

\* a rethrow without the finally block
Throw_NoReset(c, why) ==
    /\ Complete(c, "throw", why, NoDecision, NoResult, decisionHistory)
    /\ UNCHANGED isExecuting

\* catch and rethrow at lines 96-98
Throw(c, why) ==
    /\ Complete(c, "throw", why, NoDecision, NoResult, decisionHistory)
    /\ Finally

\* lines 88-95: record the decision and return the result
RecordAndReturn(c, decision, marketData, executionResult, why) ==
    /\ Complete(c, "result", why, decision, executionResult,
                recordDecision(decisionHistory, decision, marketData,
                               executionResult))
    /\ Finally

(***************************************************************************)
(* DecisionEngine.evaluateAndExecute, from one await to the next.          *)
(***************************************************************************)
\* c goes on to await a collaborator call of the given kind
Await(c, at, kind, locals) ==
    /\ pc' = [pc EXCEPT ![c] = at]
    /\ loc' = [loc EXCEPT ![c] = [locals EXCEPT !.api = @ \cup {kind}]]
    /\ UNCHANGED <<decisionHistory, last>>

\* line 67: the call of the oracle adapter
StartOracle(c, locals) ==
    /\ Await(c, "oracle", "oracle", locals)
    /\ UNCHANGED isExecuting

\* a cycle that calls the oracle adapter without the portfolio
StartPortfolio_Skipped(c, locals) ==
    StartOracle(c, locals)

\* line 64, getCurrentPortfolio up to its first await (lines 105-114)
StartPortfolio(c, locals) ==
    IF ~env.vault
    THEN Throw(c, "portfolio")
    ELSE /\ Await(c, "vaultInfo", "chain", locals)
         /\ UNCHANGED isExecuting

\* AIAgent.analyzeMarketConditions after pair locals.idx (lines 80-100)
AfterPair(c, locals) ==
    IF locals.idx < MaxPairs
    THEN /\ Await(c, "tokenData", "data", [locals EXCEPT !.idx = @ + 1])
         /\ UNCHANGED isExecuting
    ELSE StartPortfolio(c, locals)

\* getCurrentPortfolio after token locals.tIdx (lines 119-138)
AfterToken(c, locals) ==
    IF locals.tIdx < locals.nTokens
    THEN /\ Await(c, "tokenBalance", "chain",
                  [locals EXCEPT !.tIdx = @ + 1])
         /\ UNCHANGED isExecuting
    ELSE StartOracle(c, locals)

\* executeDecision without the early return for "hold"
StartExecute_HoldSubmitted(c, decision) ==
    \E r \in 1..MaxRand :
        LET decisionId == generateDecisionId(now, r)
            timestamp  == now
        IN  IF ~env.executor
            THEN RecordAndReturn(c, decision, loc[c].marketData,
                    [decisionId |-> decisionId, success |-> FALSE,
                     error |-> "Executor address not configured",
                     timestamp |-> timestamp], "noExecutor")
            ELSE /\ Await(c, "submit", "submit",
                          [NoLocals EXCEPT
                              !.marketData = loc[c].marketData,
                              !.decision = decision,
                              !.decisionId = decisionId,
                              !.timestamp = timestamp,
                              !.api = loc[c].api,
                              !.histAtCall = loc[c].histAtCall,
                              !.busyAtCall = loc[c].busyAtCall])
                 /\ UNCHANGED isExecuting

\* DecisionEngine.executeDecision up to its await (lines 182-217); the
\* locals of the cycle that are not read again are dropped
StartExecute(c, decision) ==
    \E r \in 1..MaxRand :
        LET decisionId == generateDecisionId(now, r)
            timestamp  == now
        IN  IF decision.action = "hold"
            THEN RecordAndReturn(c, decision, loc[c].marketData,
                    [decisionId |-> decisionId, success |-> TRUE,
                     timestamp |-> timestamp], "hold")
            ELSE IF ~env.executor
            THEN RecordAndReturn(c, decision, loc[c].marketData,
                    [decisionId |-> decisionId, success |-> FALSE,
                     error |-> "Executor address not configured",
                     timestamp |-> timestamp], "noExecutor")
            ELSE /\ Await(c, "submit", "submit",
                          [NoLocals EXCEPT
                              !.marketData = loc[c].marketData,
                              !.decision = decision,
                              !.decisionId = decisionId,
                              !.timestamp = timestamp,
                              !.api = loc[c].api,
                              !.histAtCall = loc[c].histAtCall,
                              !.busyAtCall = loc[c].busyAtCall])
                 /\ UNCHANGED isExecuting

\* the cycle without the call of validateDecision
AfterOracle_NoValidation(c, decision) ==
    IF decision = NoDecision
    THEN ReturnNull(c, "noDecision", NoDecision)
    ELSE StartExecute(c, decision)

\* the cycle without the test for a missing decision: validateDecision
\* reads a field of null and the cycle throws
AfterOracle_NoNullTest(c, decision) ==
    IF decision = NoDecision
    THEN Throw(c, "noDecision")
    ELSE IF ~validateDecision(decision)
    THEN ReturnNull(c, "rejected", decision)
    ELSE StartExecute(c, decision)

\* lines 73-85: what the cycle does with the oracle adapter's answer
AfterOracle(c, decision) ==
    IF decision = NoDecision
    THEN ReturnNull(c, "noDecision", NoDecision)
    ELSE IF ~validateDecision(decision)
    THEN ReturnNull(c, "rejected", decision)
    ELSE StartExecute(c, decision)

\* evaluateAndExecute without the entry guard
Call_NoGuard(c) ==
    /\ pc[c] = "idle"
    /\ LET entry == [NoLocals EXCEPT
                        !.histAtCall = decisionHistory,
                        !.busyAtCall = \E d \in Callers : pc[d] \in CyclePcs]
       IN  /\ isExecuting' = TRUE
           /\ Await(c, "tokenData", "data", [entry EXCEPT !.idx = 1])
    /\ UNCHANGED <<env, now, probe, monitorVars, ledgerVars>>

\* an entry guard whose early return clears the flag
Call_SkipClearsFlag(c) ==
    /\ pc[c] = "idle"
    /\ LET entry == [NoLocals EXCEPT
                        !.histAtCall = decisionHistory,
                        !.busyAtCall = \E d \in Callers : pc[d] \in CyclePcs]
       IN  IF isExecuting
           THEN /\ last' = Completed("null", "skipped", NoDecision,
                                     NoResult, entry)
                /\ isExecuting' = FALSE
                /\ UNCHANGED <<decisionHistory, pc, loc>>
           ELSE /\ isExecuting' = TRUE
                /\ Await(c, "tokenData", "data", [entry EXCEPT !.idx = 1])
    /\ UNCHANGED <<env, now, probe, monitorVars, ledgerVars>>

\* lines 49-61: the entry guard, and the cycle up to its first await
Call(c) ==
    /\ pc[c] = "idle"
    /\ LET entry == [NoLocals EXCEPT
                        !.histAtCall = decisionHistory,
                        !.busyAtCall = \E d \in Callers : pc[d] \in CyclePcs]
       IN  IF isExecuting
           THEN /\ last' = Completed("null", "skipped", NoDecision,
                                     NoResult, entry)
                /\ UNCHANGED <<isExecuting, decisionHistory, pc, loc>>
           ELSE /\ isExecuting' = TRUE
                /\ Await(c, "tokenData", "data", [entry EXCEPT !.idx = 1])
    /\ UNCHANGED <<env, now, probe, monitorVars, ledgerVars>>

\* mcpClient.getTokenData returns or fails (AIAgent.ts:84, 94-96)
TokenDataDone(c) ==
    /\ pc[c] = "tokenData"
    /\ \/ /\ Await(c, "lendingRates", "data", loc[c])
          /\ UNCHANGED isExecuting
       \/ AfterPair(c, [loc[c] EXCEPT !.failedPairs = @ \cup {loc[c].idx}])
    /\ UNCHANGED <<env, now, probe, monitorVars, ledgerVars>>

\* a failed fetch that is not caught in the loop: it ends the cycle
LendingRatesDone_Fatal(c) ==
    /\ pc[c] = "lendingRates"
    /\ \/ AfterPair(c, [loc[c] EXCEPT !.marketData = @ \cup {loc[c].idx}])
       \/ Throw(c, "market")
    /\ UNCHANGED <<env, now, probe, monitorVars, ledgerVars>>

\* mcpClient.getLendingRates returns or fails (AIAgent.ts:85-96)
LendingRatesDone(c) ==
    /\ pc[c] = "lendingRates"
    /\ \/ AfterPair(c, [loc[c] EXCEPT !.marketData = @ \cup {loc[c].idx}])
       \/ AfterPair(c, [loc[c] EXCEPT !.failedPairs = @ \cup {loc[c].idx}])
    /\ UNCHANGED <<env, now, probe, monitorVars, ledgerVars>>

\* blockchainClient.getVaultInfo returns or fails (lines 114-119, 139-142)
VaultInfoDone(c) ==
    /\ pc[c] = "vaultInfo"
    /\ \/ \E n \in 0..MaxTokens :
              AfterToken(c, [loc[c] EXCEPT !.nTokens = n])
       \/ Throw(c, "portfolio")
    /\ UNCHANGED <<env, now, probe, monitorVars, ledgerVars>>

\* blockchainClient.getTokenBalance returns or fails (lines 120-130)
TokenBalanceDone(c) ==
    /\ pc[c] = "tokenBalance"
    /\ \/ AfterToken(c, [loc[c] EXCEPT
                             !.tokenBalances = @ \cup {loc[c].tIdx}])
       \/ AfterToken(c, [loc[c] EXCEPT
                             !.failedTokens = @ \cup {loc[c].tIdx}])
    /\ UNCHANGED <<env, now, probe, monitorVars, ledgerVars>>

\* AIAgent.generateRebalanceDecision returns or fails (AIAgent.ts:146-160)
OracleDone(c) ==
    /\ pc[c] = "oracle"
    /\ \/ \E d \in OracleDecisions :
              AfterOracle(c, IF validateRebalanceDecision(d)
                             THEN d ELSE NoDecision)
       \/ AfterOracle(c, NoDecision)
       \/ Throw(c, "oracle")
    /\ UNCHANGED <<env, now, probe, monitorVars, ledgerVars>>

\* the results of blockchainClient.executeAIDecision (AIAgent.ts:425-437):
\* a receipt with status 1, a receipt with another status, an Error
\* thrown, something else thrown
SubmitOutcomes == {"mined", "reverted", "error", "thrown"}

\* executeDecision from the await on (lines 219-234)
SubmitResult(outcome, decisionId, timestamp) ==
    IF outcome \in {"mined", "reverted"}
    THEN [decisionId |-> decisionId,
          success |-> (outcome = "mined"),
          transactionHash |-> "0xhash",
          gasUsed |-> 1,
          timestamp |-> timestamp]
    ELSE [decisionId |-> decisionId,
          success |-> FALSE,
          error |-> IF outcome = "error"
                    THEN "transaction failed" ELSE "Unknown error",
          timestamp |-> timestamp]

\* blockchainClient.executeAIDecision returns or fails
SubmitDone(c) ==
    /\ pc[c] = "submit"
    /\ \E outcome \in SubmitOutcomes :
          RecordAndReturn(c, loc[c].decision, loc[c].marketData,
              SubmitResult(outcome, loc[c].decisionId, loc[c].timestamp),
              outcome)
    /\ UNCHANGED <<env, now, probe, monitorVars, ledgerVars>>

\* time passes
Tick ==
    /\ now < MaxTime
    /\ now' = now + 1
    /\ UNCHANGED <<isExecuting, decisionHistory, env, pc, loc, last, probe>>
    /\ UNCHANGED <<monitorVars, ledgerVars>>

Next ==
    \/ \E c \in Callers : Call(c)
    \/ \E c \in Callers : TokenDataDone(c)
    \/ \E c \in Callers : LendingRatesDone(c)
    \/ \E c \in Callers : VaultInfoDone(c)
    \/ \E c \in Callers : TokenBalanceDone(c)
    \/ \E c \in Callers : OracleDone(c)
    \/ \E c \in Callers : SubmitDone(c)
    \/ Tick

Spec == Init /\ [][Next]_vars

\* the collaborator call that the call of c awaits returns or fails
CollaboratorDone(c) ==
    \/ TokenDataDone(c)
    \/ LendingRatesDone(c)
    \/ VaultInfoDone(c)
    \/ TokenBalanceDone(c)
    \/ OracleDone(c)
    \/ SubmitDone(c)

\* every collaborator call that a cycle awaits returns or fails: the
\* promise of the data API, of the chain read, of the oracle and of the
\* submission is settled at some time
CollaboratorsAnswer ==
    \A c \in Callers : WF_vars(CollaboratorDone(c))

SpecLive == Init /\ [][Next]_vars /\ CollaboratorsAnswer

(***************************************************************************)
(* The validator alone: validateDecision applied to each decision the      *)
(* oracle adapter can hand over.                                           *)
(***************************************************************************)
InitValidate ==
    /\ InitEngine
    /\ probe \in {[asked |-> FALSE, decision |-> d] : d \in ProbeDecisions}
    /\ InitMonitor
    /\ InitLedgerObserver

Validate ==
    /\ ~probe.asked
    /\ probe' = [asked |-> TRUE, decision |-> probe.decision,
                 answer |-> validateDecision(probe.decision)]
    /\ UNCHANGED <<isExecuting, decisionHistory, env, now, pc, loc, last>>
    /\ UNCHANGED <<monitorVars, ledgerVars>>

NextValidate == Validate

SpecValidate == InitValidate /\ [][NextValidate]_vars

(***************************************************************************)
(* StrategyMonitor: the checks it makes before it calls the engine         *)
(* (ai-agent/src/monitoring/StrategyMonitor.ts).  Times are milliseconds,  *)
(* gas prices whole gwei, a 24-hour price change a fraction in thousandths.*)
(***************************************************************************)
\* JavaScript parseInt on a decimal string: leading white space, an
\* optional sign, digits; without a digit the value is NaN
parseInt(s) ==
    LET a   == SkipSpace(s, 1)
        neg == a <= Len(s) /\ s[a] = "-"
        b   == IF a <= Len(s) /\ s[a] \in {"-", "+"} THEN a + 1 ELSE a
        c   == DigitsEnd(s, b)
        mag == IntValue(s, b, c)
    IN  IF c = b
        THEN [nan |-> TRUE, int |-> 0]
        ELSE [nan |-> FALSE, int |-> IF neg THEN 0 - mag ELSE mag]

DigitChar(n) ==
    CASE n = 0 -> "0" [] n = 1 -> "1" [] n = 2 -> "2" [] n = 3 -> "3"
      [] n = 4 -> "4" [] n = 5 -> "5" [] n = 6 -> "6" [] n = 7 -> "7"
      [] n = 8 -> "8" [] n = 9 -> "9"

\* the decimal digits of a natural number
RECURSIVE NatToString(_)
NatToString(n) ==
    IF n < 10 THEN <<DigitChar(n)>>
    ELSE Append(NatToString(n \div 10), DigitChar(n % 10))

\* String(n) of an integer, as a template literal formats it
NumToString(n) ==
    IF n < 0 THEN <<"-">> \o NatToString(0 - n) ELSE NatToString(n)

\* (x * 100).toFixed(2) of a fraction x held in thousandths
PercentToFixed2(x) ==
    LET mag == IF x < 0 THEN 0 - x ELSE x
    IN  (IF x < 0 THEN <<"-">> ELSE <<>>)
           \o NatToString(mag \div 10)
           \o <<".", DigitChar(mag % 10), "0">>

\* process.env.MIN_EVALUATION_INTERVAL || '300000'
DefaultMinInterval == <<"3", "0", "0", "0", "0", "0">>

\* process.env.MAX_GAS_PRICE || '100'
DefaultMaxGasPrice == <<"1", "0", "0">>

\* process.env[name] || fallback
EnvOr(e, name, fallback) == IF Truthy(e, name) THEN e[name] ELSE fallback

\* lines 69-72: timeSinceLastEvaluation < minInterval
TooSoon(e, t, lastEval) ==
    LET minInterval == parseInt(EnvOr(e, "MIN_EVALUATION_INTERVAL",
                                      DefaultMinInterval))
        timeSinceLastEvaluation == t - lastEval
    IN  ~minInterval.nan /\ timeSinceLastEvaluation < minInterval.int

\* const maxVolatility = 0.1, in thousandths
maxVolatility == 100

\* the chains and tokens of updateMarketData, in the order of its loops
chains == <<"ethereum", "polygon", "arbitrum">>

tokens == <<"USDC", "WETH", "WMATIC", "USDT">>

Abs(x) == IF x < 0 THEN 0 - x ELSE x

\* the test of one cached data point without Math.abs
IsVolatile_NoAbs(data) ==
    /\ Has(data, "priceChange24h") /\ data.priceChange24h # 0
    /\ data.priceChange24h > maxVolatility

\* line 194: data.priceChange24h && Math.abs(data.priceChange24h) > 0.1
IsVolatile(data) ==
    /\ Has(data, "priceChange24h") /\ data.priceChange24h # 0
    /\ Abs(data.priceChange24h) > maxVolatility

\* the (chain, token) pairs of the cache in the order of Object.entries
CacheEntries(cache) ==
    LET pairs == [i \in 1..(Len(chains) * Len(tokens)) |->
                     <<chains[((i - 1) \div Len(tokens)) + 1],
                       tokens[((i - 1) % Len(tokens)) + 1]>>]
    IN  SelectSeq(pairs, LAMBDA pr : /\ Has(cache, pr[1])
                                     /\ Has(cache[pr[1]], pr[2]))

\* StrategyMonitor.checkMarketVolatility
checkMarketVolatility(cache) ==
    LET hot == SelectSeq(CacheEntries(cache),
                         LAMBDA pr : IsVolatile(cache[pr[1]][pr[2]]))
    IN  IF hot # <<>>
        THEN [passed |-> FALSE,
              reason |-> [token |-> hot[1][2], on |-> hot[1][1],
                          text |-> " has high volatility: ",
                          percent |-> PercentToFixed2(
                              cache[hot[1][1]][hot[1][2]].priceChange24h)]]
        ELSE [passed |-> TRUE]

\* StrategyMonitor.checkPortfolioConcentration
checkPortfolioConcentration == [passed |-> TRUE]

\* the result of the two getGasPrice calls when one of them rejects
GasFailed == <<>>

\* the test of one gas price with the ceiling itself counted as too high
GasReason_CeilingExcluded(gasPrice, gasLimit) ==
    IF ~gasLimit.nan /\ gasPrice * 1000 >= gasLimit.milli
    THEN <<[text |-> "Gas price too high: ",
            value |-> NumToString(gasPrice), unit |-> " gwei"]>>
    ELSE <<>>

\* lines 157-159: the reason pushed for one gas price, if any
GasReason(gasPrice, gasLimit) ==
    IF NumLess(gasLimit, gasPrice)
    THEN <<[text |-> "Gas price too high: ",
            value |-> NumToString(gasPrice), unit |-> " gwei"]>>
    ELSE <<>>

\* lines 156-160: the reasons pushed for the gas prices, one network
\* after the other
RECURSIVE GasReasons(_, _)
GasReasons(prices, gasLimit) ==
    IF prices = <<>> THEN <<>>
    ELSE GasReason(Head(prices), gasLimit)
            \o GasReasons(Tail(prices), gasLimit)

\* StrategyMonitor.performRiskChecks, given what Promise.all of the two
\* getGasPrice calls came to
performRiskChecks(e, prices, cache) ==
    IF prices = GasFailed
    THEN [passed |-> FALSE,
          reasons |-> <<[text |-> "Risk check system error"]>>]
    ELSE LET gasLimit == parseFloat(EnvOr(e, "MAX_GAS_PRICE",
                                          DefaultMaxGasPrice))
             volatilityCheck == checkMarketVolatility(cache)
             concentrationCheck == checkPortfolioConcentration
             reasons ==
                 GasReasons(prices, gasLimit)
                 \o (IF ~volatilityCheck.passed
                     THEN <<[text |-> "High market volatility detected: ",
                             reason |-> volatilityCheck.reason]>>
                     ELSE <<>>)
                 \o (IF ~concentrationCheck.passed
                     THEN <<[text |-> "Portfolio concentration risk: ",
                             reason |-> concentrationCheck.reason]>>
                     ELSE <<>>)
         IN  [passed |-> Len(reasons) = 0, reasons |-> reasons]

(***************************************************************************)
(* StrategyMonitor as a state machine.  The engine's cycle, whose steps    *)
(* are the specification Spec, is here one await with the three ways it    *)
(* completes.                                                              *)
(***************************************************************************)
\* the clock advances by half of the default interval
ClockStep == 150 * 1000

\* Date.now() when the process starts: later than any interval after 0
StartTime == 3 * ClockStep

\* what process.env holds of the monitor's two settings: nothing, or an
\* interval of 450000 ms and a ceiling of 120 gwei
MonitorEnvs ==
    LET interval == [MIN_EVALUATION_INTERVAL |->
                        <<"4", "5", "0", "0", "0", "0">>]
        gas      == [MAX_GAS_PRICE |-> <<"1", "2", "0">>]
    IN  {EmptyObject, interval @@ gas}

\* the gas prices the data API reports
GasPrices == {100, 120, 150}

\* what Promise.all of the two getGasPrice calls comes to
GasOutcomes == (GasPrices \X GasPrices) \cup {GasFailed}

\* the priceChange24h values the data API reports
PriceChanges == {100, 0 - 150}

\* what getTokenData and getLendingRates give for one pair: priceChange24h
\* is optional; the fields that no check reads are left out
TokenDatas == {EmptyObject} \cup {[priceChange24h |-> v] : v \in PriceChanges}

\* the monitor and the engine after construction, the clock at StartTime
InitMonitorSpec ==
    /\ isExecuting = FALSE
    /\ decisionHistory = <<>>
    /\ env \in MonitorEnvs
    /\ now = StartTime
    /\ pc = [c \in Callers |-> "idle"]
    /\ loc = [c \in Callers |-> NoLocals]
    /\ last = NoCall
    /\ probe = NoProbe
    /\ InitMonitor
    /\ InitLedgerObserver

\* the variables of the engine that the monitor does not touch
engineRest == <<decisionHistory, env, pc, loc, last, probe>>

\* updateMarketData at the head of its loop over the chains, for chain i,
\* up to the next await (lines 102-110); cache is the cache so far
UpdateChain(cache, i) ==
    IF i > MaxChains
    THEN /\ marketDataCache' = cache
         /\ upd' = [at |-> "idle"]
    ELSE /\ marketDataCache' =
               [ch \in DOMAIN cache \cup {chains[i]} |->
                   IF ch = chains[i] THEN EmptyObject ELSE cache[ch]]
         /\ upd' = [at |-> "token", chain |-> i, token |-> 1]

\* updateMarketData after a token of the chain (lines 105-120)
UpdateToken(cache) ==
    IF upd.token < MaxCacheTokens
    THEN /\ marketDataCache' = cache
         /\ upd' = [upd EXCEPT !.token = @ + 1]
    ELSE UpdateChain(cache, upd.chain + 1)

\* StrategyMonitor.start, up to the first await of updateMarketData
Start ==
    /\ upd.at = "idle"
    /\ isActive' = TRUE
    /\ emergencyStopActivated' = FALSE
    /\ UpdateChain(marketDataCache, 1)
    /\ UNCHANGED <<isExecuting, now, engineRest, lastEvaluation, mpc,
                   mlast, lastAttempt, lastCall,
                   ledgerVars>>

\* StrategyMonitor.stop
Stop ==
    /\ isActive' = FALSE
    /\ UNCHANGED <<isExecuting, now, engineRest, emergencyStopActivated,
                   lastEvaluation, marketDataCache, mpc, upd, mlast,
                   lastAttempt, lastCall,
                   ledgerVars>>

\* StrategyMonitor.emergencyStop
EmergencyStop ==
    /\ emergencyStopActivated' = TRUE
    /\ isActive' = FALSE
    /\ UNCHANGED <<isExecuting, now, engineRest, lastEvaluation,
                   marketDataCache, mpc, upd, mlast, lastAttempt,
                   lastCall, ledgerVars>>

\* the cron job of every minute: updateMarketData up to its first await
UpdateMarketData ==
    /\ upd.at = "idle"
    /\ UpdateChain(marketDataCache, 1)
    /\ UNCHANGED <<isExecuting, now, engineRest, isActive,
                   emergencyStopActivated, lastEvaluation, mpc, mlast,
                   lastAttempt, lastCall,
                   ledgerVars>>

\* Promise.all of getTokenData and getLendingRates resolves and the pair
\* is cached, or it rejects and the pair is skipped (lines 107-119)
UpdateTokenDone ==
    /\ upd.at = "token"
    /\ LET ch    == chains[upd.chain]
           tk    == tokens[upd.token]
           entry == marketDataCache[ch]
       IN  \/ \E got \in TokenDatas :
                 UpdateToken([marketDataCache EXCEPT
                     ![ch] = [k \in DOMAIN entry \cup {tk} |->
                                IF k = tk THEN got ELSE entry[k]]])
           \/ UpdateToken(marketDataCache)
    /\ UNCHANGED <<isExecuting, now, engineRest, isActive,
                   emergencyStopActivated, lastEvaluation, mpc, mlast,
                   lastAttempt, lastCall,
                   ledgerVars>>

\* what the observer keeps of a completed call of the monitor: how it
\* completed (kind: "result", "null" or "throw"), at which place (why),
\* whether it called the engine, and the emergency toggle at its entry
MonitorCompleted(kind, why, invoked, locals) ==
    [kind |-> kind, why |-> why, invoked |-> invoked,
     emergencyAtCall |-> locals.emergencyAtCall]

\* the call of trigger t resolves or rejects
MonitorReturn(t, kind, why, invoked, locals) ==
    /\ mpc' = [mpc EXCEPT ![t] = [at |-> "idle"]]
    /\ mlast' = MonitorCompleted(kind, why, invoked, locals)

\* what the observer notes at the entry of a call: the emergency toggle,
\* and whether a call came back from the engine less than the minimum
\* interval ago
AtEntry ==
    [emergencyAtCall |-> emergencyStopActivated,
     recentAtCall |-> TooSoon(env, now, lastAttempt)]

\* the entry of evaluateAndExecute without the test of line 60
EntryGate_NoGate(active, emergency, e, t, lastEval) ==
    IF TooSoon(e, t, lastEval)
    THEN "throttle"
    ELSE "admit"

\* the entry of evaluateAndExecute with a test of the emergency toggle only
EntryGate_EmergencyOnly(active, emergency, e, t, lastEval) ==
    IF emergency
    THEN "inactive"
    ELSE IF TooSoon(e, t, lastEval)
    THEN "throttle"
    ELSE "admit"

\* lines 60-75: the tests before the risk checks
EntryGate(active, emergency, e, t, lastEval) ==
    IF ~active \/ emergency
    THEN "inactive"
    ELSE IF TooSoon(e, t, lastEval)
    THEN "throttle"
    ELSE "admit"

\* StrategyMonitor.evaluateAndExecute up to its first await (lines 59-78,
\* 151-154)
MonitorCall(t) ==
    /\ mpc[t].at = "idle"
    /\ LET gate == EntryGate(isActive, emergencyStopActivated, env, now,
                             lastEvaluation)
       IN  IF gate # "admit"
           THEN MonitorReturn(t, "null", gate, FALSE, AtEntry)
           ELSE /\ mpc' = [mpc EXCEPT ![t] = [at |-> "gasPrice"] @@ AtEntry]
                /\ UNCHANGED mlast
    /\ UNCHANGED <<isExecuting, now, engineRest, isActive,
                   emergencyStopActivated, lastEvaluation, marketDataCache,
                   upd, lastAttempt, lastCall,
                   ledgerVars>>

\* lines 85-88 when the engine is called: its entry guard returns null at
\* once while a cycle is under way, and the call has then come back;
\* otherwise the cycle starts and the call waits for it
CallEngine(t) ==
    IF isExecuting
    THEN /\ MonitorReturn(t, "null", "busy", TRUE, mpc[t])
         /\ lastEvaluation' = now
         /\ lastAttempt' = now
         /\ lastCall' = now
         /\ UNCHANGED isExecuting
    ELSE /\ isExecuting' = TRUE
         /\ mpc' = [mpc EXCEPT ![t].at = "engine"]
         /\ lastCall' = now
         /\ UNCHANGED <<mlast, lastEvaluation, lastAttempt>>

\* the place at which a call rejected by the risk checks returns: the
\* checks failed, or they could not be made
RiskPlace(prices) == IF prices = GasFailed THEN "riskError" ELSE "risk"

\* the monitor with a performRiskChecks that lets the error of a
\* getGasPrice call through
GasPriceDone_NoCatch(t) ==
    /\ mpc[t].at = "gasPrice"
    /\ \E prices \in GasOutcomes :
          LET riskCheck == performRiskChecks(env, prices, marketDataCache)
          IN  IF prices = GasFailed
              THEN /\ MonitorReturn(t, "throw", "riskError", FALSE, mpc[t])
                   /\ UNCHANGED <<isExecuting, lastEvaluation, lastAttempt,
                                  lastCall>>
              ELSE IF ~riskCheck.passed
              THEN /\ MonitorReturn(t, "null", "risk", FALSE, mpc[t])
                   /\ UNCHANGED <<isExecuting, lastEvaluation, lastAttempt,
                                  lastCall>>
              ELSE CallEngine(t)
    /\ UNCHANGED <<now, engineRest, isActive, emergencyStopActivated,
                   marketDataCache, upd, ledgerVars>>

\* Promise.all of the two getGasPrice calls resolves or rejects: the rest
\* of performRiskChecks, and evaluateAndExecute up to its next await
\* (lines 78-85, 156-184)
GasPriceDone(t) ==
    /\ mpc[t].at = "gasPrice"
    /\ \E prices \in GasOutcomes :
          LET riskCheck == performRiskChecks(env, prices, marketDataCache)
          IN  IF ~riskCheck.passed
              THEN /\ MonitorReturn(t, "null", RiskPlace(prices), FALSE,
                                    mpc[t])
                   /\ UNCHANGED <<isExecuting, lastEvaluation, lastAttempt,
                                  lastCall>>
              ELSE CallEngine(t)
    /\ UNCHANGED <<now, engineRest, isActive, emergencyStopActivated,
                   marketDataCache, upd, ledgerVars>>

\* the ways the engine's cycle completes
CycleOutcomes == {"result", "null", "throw"}

\* decisionEngine.evaluateAndExecute resolves or rejects: lines 86-92
CycleDone(t) ==
    /\ mpc[t].at = "engine"
    /\ isExecuting' = FALSE
    /\ lastAttempt' = now
    /\ UNCHANGED lastCall
    /\ \E outcome \in CycleOutcomes :
          /\ lastEvaluation' =
                IF outcome = "throw" THEN lastEvaluation ELSE now
          /\ MonitorReturn(t, outcome, "engine", TRUE, mpc[t])
    /\ UNCHANGED <<now, engineRest, isActive, emergencyStopActivated,
                   marketDataCache, upd, ledgerVars>>

\* time passes
Advance ==
    /\ now < StartTime + MaxClock * ClockStep
    /\ now' = now + ClockStep
    /\ UNCHANGED <<isExecuting, engineRest, monitorVars, ledgerVars>>

NextMonitor ==
    \/ Start
    \/ Stop
    \/ EmergencyStop
    \/ UpdateMarketData
    \/ UpdateTokenDone
    \/ \E t \in Triggers : MonitorCall(t)
    \/ \E t \in Triggers : GasPriceDone(t)
    \/ \E t \in Triggers : CycleDone(t)
    \/ Advance

SpecMonitor == InitMonitorSpec /\ [][NextMonitor]_vars

(***************************************************************************)
(* The admission decision alone: one call of the monitor, from its entry   *)
(* to the call of the engine, for every state of the monitor and every     *)
(* answer of the gas price API.                                            *)
(***************************************************************************)
\* what one chain of the cache can hold: data of any of the tokens
CacheChains ==
    UNION {[T -> TokenDatas] :
              T \in SUBSET {tokens[j] : j \in 1..MaxCacheTokens}}

\* the caches updateMarketData can leave: the chains it has come to so
\* far, each with the tokens whose data could be fetched
Caches ==
    UNION {[{chains[i] : i \in 1..n} -> CacheChains] : n \in 0..MaxChains}

\* the (isActive, emergencyStopActivated) pairs that start, stop and
\* emergencyStop can leave
MonitorFlags == {<<FALSE, FALSE>>, <<TRUE, FALSE>>, <<FALSE, TRUE>>}

\* StrategyMonitor.evaluateAndExecute from its entry to the call of the
\* engine (lines 59-85), given the gas prices of the moment
Gate(active, emergency, e, t, lastEval, prices, cache) ==
    LET entry     == EntryGate(active, emergency, e, t, lastEval)
        riskCheck == performRiskChecks(e, prices, cache)
    IN  IF entry # "admit"
        THEN [invoked |-> FALSE, why |-> entry]
        ELSE IF ~riskCheck.passed
        THEN [invoked |-> FALSE, why |-> RiskPlace(prices),
              riskCheck |-> riskCheck]
        ELSE [invoked |-> TRUE, why |-> "engine", riskCheck |-> riskCheck]

InitGate ==
    /\ isExecuting = FALSE
    /\ decisionHistory = <<>>
    /\ env \in MonitorEnvs
    /\ now = StartTime + MaxClock * ClockStep
    /\ pc = [c \in Callers |-> "idle"]
    /\ loc = [c \in Callers |-> NoLocals]
    /\ last = NoCall
    /\ probe = NoProbe
    /\ \E f \in MonitorFlags :
          /\ isActive = f[1]
          /\ emergencyStopActivated = f[2]
    /\ lastEvaluation \in
          {0} \cup {StartTime + k * ClockStep : k \in 0..MaxClock}
    /\ lastAttempt = lastEvaluation
    /\ lastCall = lastEvaluation
    /\ marketDataCache \in Caches
    /\ mpc = [t \in Triggers |-> [at |-> "idle"]]
    /\ upd = [at |-> "idle"]
    /\ mlast = NoMonitorCall
    /\ InitLedgerObserver

\* one call of the monitor is decided
Decision ==
    /\ query = NoQuery
    /\ \E prices \in GasOutcomes :
          query' = [kind |-> "gate", prices |-> prices,
                    response |-> Gate(isActive, emergencyStopActivated,
                                      env, now, lastEvaluation, prices,
                                      marketDataCache)]
    /\ UNCHANGED <<isExecuting, now, engineRest, monitorVars, appended>>

NextGate == Decision

SpecGate == InitGate /\ [][NextGate]_vars

(***************************************************************************)
(* The way of one answer of the language model through the oracle adapter  *)
(* and the cycle's validation.                                             *)
(***************************************************************************)
\* the chain and token fields of an answer: any of them may be left out,
\* and the token may be the empty string
RawRoutes ==
    {[f \in F |-> Route[f]] : F \in SUBSET (DOMAIN Route)}
        \cup {[Route EXCEPT !.token = ""]}

RawConfidences == {50, 70, 90}

\* the answers of the language model, as parsed from its JSON
RawDecisions ==
    LET plain == {Base(a, k) @@ r : a \in ProbeActions,
                     k \in RawConfidences, r \in RawRoutes}
    IN  plain \cup {WithAmount(d, m) : d \in plain, m \in ProbeAmounts}

\* AIAgent.generateRebalanceDecision, lines 146-156: the parsed answer if
\* it passes validateRebalanceDecision, and null if not
Adapted(d) == IF validateRebalanceDecision(d) THEN d ELSE NoDecision

\* DecisionEngine.evaluateAndExecute, lines 73-85: what the cycle does
\* with the adapter's answer
Verdict(decision) ==
    IF decision = NoDecision
    THEN "noDecision"
    ELSE IF ~validateDecision(decision)
    THEN "rejected"
    ELSE "execute"

\* DecisionEngine.executeDecision, line 211: amount: decision.amount || '0'
SubmittedAmount(decision) ==
    IF Truthy(decision, "amount") THEN decision.amount ELSE <<"0">>

\* DecisionEngine.executeDecision, lines 188-217: whether the cycle calls
\* blockchainClient.executeAIDecision for the adapter's answer, and with
\* which action and amount
Submission(e, decision) ==
    IF Verdict(decision) # "execute"
    THEN [called |-> FALSE]
    ELSE IF decision.action = "hold" \/ ~e.executor
    THEN [called |-> FALSE]
    ELSE [called |-> TRUE, action |-> decision.action,
          amount |-> SubmittedAmount(decision)]

InitOracle ==
    /\ InitEngine
    /\ probe \in {[asked |-> FALSE, decision |-> d] : d \in RawDecisions}
    /\ InitMonitor
    /\ InitLedgerObserver

\* the answer goes through the adapter and the cycle's validation
Decide ==
    /\ ~probe.asked
    /\ probe' = [asked |-> TRUE, decision |-> probe.decision,
                 verdict |-> Verdict(Adapted(probe.decision)),
                 submission |-> Submission(env, Adapted(probe.decision))]
    /\ UNCHANGED <<isExecuting, decisionHistory, env, now, pc, loc, last>>
    /\ UNCHANGED <<monitorVars, ledgerVars>>

NextOracle == Decide

SpecOracle == InitOracle /\ [][NextOracle]_vars

(***************************************************************************)
(* The ledger alone: recordDecision applied to one record after the other, *)
(* and getDecisionHistory applied to the ledger.                           *)
(***************************************************************************)
\* the decisions of the records
LedgerDecisions ==
    {Base("hold", 90),
     WithAmount(Base("rebalance", 90) @@ Route, <<"1", "5", "0">>)}

\* the k-th record handed to recordDecision: its id and timestamp are k
LedgerResult(k, success) ==
    [decisionId |-> generateDecisionId(k, 1), success |-> success,
     timestamp |-> k]

LedgerRecord(k, decision, success) ==
    [id |-> generateDecisionId(k, 1), decision |-> decision,
     executionResult |-> LedgerResult(k, success),
     timestamp |-> k, marketContext |-> {}]

InitLedger ==
    /\ InitEngine
    /\ probe = NoProbe
    /\ InitMonitor
    /\ InitLedgerObserver

\* line 88: this.recordDecision(decision, marketData, executionResult);
\* the observer forgets the answer to a query of the ledger before
Record ==
    /\ Len(appended) < MaxAppends
    /\ \E decision \in LedgerDecisions, success \in BOOLEAN :
          LET k == Len(appended) + 1
          IN  /\ decisionHistory' =
                    recordDecision(decisionHistory, decision, {},
                                   LedgerResult(k, success))
              /\ appended' =
                    Append(appended, LedgerRecord(k, decision, success))
    /\ query' = NoQuery
    /\ UNCHANGED <<isExecuting, env, now, pc, loc, last, probe,
                   monitorVars>>

\* the limits getDecisionHistory is called with
Limits == 0..MaxAppends

\* DecisionEngine.getDecisionHistory(limit), called with any limit >= 0
History ==
    /\ \E limit \in Limits :
          query' = [kind |-> "history", limit |-> limit,
                    answer |-> getDecisionHistory(decisionHistory, limit)]
    /\ UNCHANGED <<isExecuting, decisionHistory, env, now, pc, loc, last,
                   probe, monitorVars, appended>>

NextLedger ==
    \/ Record
    \/ History

SpecLedger == InitLedger /\ [][NextLedger]_vars

(***************************************************************************)
(* getStats applied to a ledger.                                           *)
(***************************************************************************)
\* the ledger whose i-th record holds the i-th of the given decisions and
\* success flags
LedgerOf(decisions, successes) ==
    [i \in 1..Len(decisions) |->
        LedgerRecord(i, decisions[i], successes[i])]

\* the ledgers getStats is applied to: getStats is a function of the
\* array alone, whatever its length
StatLedgers ==
    UNION {{LedgerOf(d, f) : d \in [1..n -> LedgerDecisions],
                             f \in [1..n -> BOOLEAN]} :
              n \in 0..MaxStatRecords}

InitStats ==
    /\ isExecuting = FALSE
    /\ decisionHistory \in StatLedgers
    /\ env \in [vault : BOOLEAN, executor : BOOLEAN]
    /\ now = 0
    /\ pc = [c \in Callers |-> "idle"]
    /\ loc = [c \in Callers |-> NoLocals]
    /\ last = NoCall
    /\ probe = NoProbe
    /\ InitMonitor
    /\ InitLedgerObserver

\* GET /api/status and the recommendations: getStats()
Stats ==
    /\ query = NoQuery
    /\ query' = [kind |-> "stats", answer |-> getStats(decisionHistory)]
    /\ UNCHANGED <<isExecuting, decisionHistory, env, now, pc, loc, last,
                   probe, monitorVars, appended>>

NextStats == Stats

SpecStats == InitStats /\ [][NextStats]_vars

(***************************************************************************)
(* Properties of the decision cycle.                                       *)
(***************************************************************************)
\* the callers whose call is suspended inside a started cycle
Active == {c \in Callers : pc[c] \in CyclePcs}

\* a call has completed and the observer holds its outcome
Observed == last.kind # "none"

\* C1: a call made while another call's cycle has not completed starts no
\* cycle of its own, and completes with null having invoked no collaborator
\* (data API, chain, oracle, submission).
C1_SecondCallSkipped ==
    /\ \A c \in Active : ~loc[c].busyAtCall
    /\ (Observed /\ last.busyAtCall) => (last.kind = "null" /\ last.api = {})

\* a second call has been answered while the first cycle is still suspended
C1_Witness ==
    /\ Observed /\ last.busyAtCall /\ last.kind = "null"
    /\ \E c \in Callers : pc[c] = "oracle"

\* C2: at most one cycle is active, and isExecuting is true exactly while
\* one is; hence all pending collaborator calls belong to one cycle.
C2_AtMostOneCycle ==
    /\ Cardinality(Active) <= 1
    /\ isExecuting <=> (Active # {})

\* the whale webhook's cycle is active, the flag is set, and another
\* trigger has just been turned away
C2_Witness ==
    /\ isExecuting /\ pc["whale"] = "submit"
    /\ Observed /\ last.why = "skipped"

\* C3: after a started cycle has ended, by a result, by null for a missing
\* or a rejected decision, or by an error, isExecuting is false as long as
\* no new cycle has started; and a call is turned away only while another
\* call's cycle is active, so the next call after the end is admitted.
C3_FlagResetOnEveryExit ==
    /\ (Observed /\ last.why # "skipped" /\ Active = {}) => ~isExecuting
    /\ (Observed /\ last.why = "skipped") => last.busyAtCall

\* a cycle ended by an error and the next call has been admitted
C3_Witness ==
    /\ Observed /\ last.kind = "throw"
    /\ Active # {}

\* the places where the execution submission fails: the submit call throws
\* an Error or something else, or no executor address is configured
SubmitFailures == {"error", "thrown", "noExecutor"}

\* the record stored last
Newest == decisionHistory[Len(decisionHistory)]

\* the newest record holds the result of the completed call, a failure
\* with a non-empty error string
NewestIsTheFailure ==
    /\ Len(decisionHistory) > 0
    /\ Newest.executionResult = last.result
    /\ Newest.executionResult.success = FALSE
    /\ Has(Newest.executionResult, "error")
    /\ Newest.executionResult.error # ""

\* C4 as stated: after a cycle that fails during execution submission,
\* getStats().totalDecisions is one more than before the cycle and the
\* newest record is the failure.
C4_TotalGrowsByOne ==
    (Observed /\ last.why \in SubmitFailures) =>
        /\ getStats(decisionHistory).totalDecisions = last.totalBefore + 1
        /\ NewestIsTheFailure

\* C4 amended: totalDecisions is one more than before the cycle when the
\* ledger held fewer records than its limit, and stays at the limit when
\* the ledger was full; in both cases the newest record is the failure.
C4_TotalGrowsUpToLimit ==
    (Observed /\ last.why \in SubmitFailures) =>
        /\ getStats(decisionHistory).totalDecisions =
              (IF last.totalBefore < HistoryLimit
               THEN last.totalBefore + 1 ELSE HistoryLimit)
        /\ NewestIsTheFailure

\* a submission has thrown in a cycle that began with a full ledger
C4_Witness ==
    /\ Observed /\ last.why = "error"
    /\ last.totalBefore = HistoryLimit
    /\ "submit" \in last.api

\* the step by which the call of c completes
Completes(c) == pc[c] \in CyclePcs /\ pc'[c] = "idle"

\* the completing call of c has left the ledger as it was at its entry and
\* has made no on-chain submission
NothingDone(c) ==
    /\ decisionHistory' = loc[c].histAtCall
    /\ getStats(decisionHistory').totalDecisions
          = getStats(loc[c].histAtCall).totalDecisions
    /\ "submit" \notin last'.api

\* C5: a cycle in which the vault read or the oracle invocation fails ends
\* by throwing to its caller, with the ledger as it was at the call's entry
\* and without an on-chain submission.
C5_FailureBeforeValidation ==
    [][\A c \in Callers :
          (Completes(c) /\ last'.why \in {"portfolio", "oracle"}) =>
              (last'.kind = "throw" /\ NothingDone(c))]_vars

\* the oracle invocation has failed after a record was stored earlier
C5_Witness ==
    /\ Observed /\ last.kind = "throw" /\ last.why = "oracle"
    /\ Len(decisionHistory) > 0

\* C6: a cycle whose oracle decision the validator rejects returns null,
\* submits nothing and leaves the ledger as it was; no record of the ledger
\* holds a decision the validator rejects.
C6_RejectedNotPersisted ==
    /\ [](\A i \in 1..Len(decisionHistory) :
              validateDecision(decisionHistory[i].decision))
    /\ [][\A c \in Callers :
             (Completes(c) /\ last'.decision # NoDecision
                /\ ~validateDecision(last'.decision)) =>
                 (last'.kind = "null" /\ NothingDone(c))]_vars

\* the validator has rejected a rebalance of confidence 0.5
C6_Witness ==
    /\ Observed /\ last.kind = "null" /\ last.decision # NoDecision
    /\ last.decision.action = "rebalance"
    /\ last.decision.confidence = 50

\* C7: a cycle to which the oracle adapter returns no decision returns
\* null without an error, stores no record and submits nothing.
C7_NoDecisionNoRecord ==
    [][\A c \in Callers :
          (Completes(c) /\ last'.why = "noDecision") =>
              (last'.kind = "null" /\ last'.decision = NoDecision
                 /\ NothingDone(c))]_vars

\* the oracle adapter has returned no decision
C7_Witness ==
    /\ Observed /\ last.kind = "null" /\ last.why = "noDecision"
    /\ "oracle" \in last.api

\* the ledger after exactly the record of this decision and result has
\* been appended to the ledger before
AppendedOne(before, after, decision, result, marketContext) ==
    LET record == [id |-> result.decisionId, decision |-> decision,
                   executionResult |-> result,
                   timestamp |-> result.timestamp,
                   marketContext |-> marketContext]
        all    == before \o <<record>>
    IN  /\ Len(after) = (IF Len(all) > HistoryLimit
                         THEN HistoryLimit ELSE Len(all))
        /\ \A i \in 1..Len(after) :
              after[i] = all[Len(all) - Len(after) + i]

\* C8: a cycle whose decision is a "hold" that passes validation makes no
\* on-chain submission, returns a result with success = true, without
\* transaction hash and without error, and appends exactly one record.
C8_HoldIsRecorded ==
    [][\A c \in Callers :
          (Completes(c) /\ last'.decision # NoDecision
             /\ last'.decision.action = "hold"
             /\ validateDecision(last'.decision)) =>
              /\ last'.kind = "result"
              /\ "submit" \notin last'.api
              /\ last'.result.success = TRUE
              /\ ~Has(last'.result, "transactionHash")
              /\ ~Has(last'.result, "error")
              /\ AppendedOne(loc[c].histAtCall, decisionHistory',
                              last'.decision, last'.result,
                              loc[c].marketData)]_vars

\* a hold of confidence 0.9 has been executed and recorded
C8_Witness ==
    /\ Observed /\ last.kind = "result" /\ last.why = "hold"
    /\ last.decision.confidence = 90
    /\ Len(decisionHistory) > 0
    /\ Newest.decision.action = "hold"

\* an ExecutionResult has exactly one of transaction hash and error: the
\* hash on success, the error on failure
ExactlyOne(result) ==
    IF result.success
    THEN Has(result, "transactionHash") /\ ~Has(result, "error")
    ELSE Has(result, "error") /\ ~Has(result, "transactionHash")

\* C9: every ExecutionResult of a decision other than "hold", returned or
\* stored, has the transaction hash and no error when success is true and
\* the error and no transaction hash when success is false.
C9_HashOrError ==
    /\ (Observed /\ last.kind = "result" /\ last.decision.action # "hold")
          => ExactlyOne(last.result)
    /\ \A i \in 1..Len(decisionHistory) :
          decisionHistory[i].decision.action # "hold"
             => ExactlyOne(decisionHistory[i].executionResult)

\* the numeric value of a decision's amount is at least MinAmount
AmountAtLeastMin(d) ==
    /\ ~parseFloat(d.amount).nan
    /\ parseFloat(d.amount).milli >= MinAmount * 1000

\* the amount is there, not empty, and parses to a number below MinAmount
AmountBelowMin(d) ==
    /\ Has(d, "amount") /\ d.amount # <<>>
    /\ ~parseFloat(d.amount).nan
    /\ parseFloat(d.amount).milli < MinAmount * 1000

\* C10 as stated: validateDecision answers true exactly when the
\* confidence is at least 0.7, the action is one of the five, and the
\* amount is absent or has a numeric value of at least 100.
C10_ValidExactlyWhen ==
    probe.asked =>
        (probe.answer <=>
            /\ probe.decision.confidence >= ConfidenceFloor
            /\ probe.decision.action \in
                  {"rebalance", "hold", "bridge", "lend", "swap"}
            /\ (~Has(probe.decision, "amount")
                   \/ AmountAtLeastMin(probe.decision)))

\* C10 amended: validateDecision answers false exactly when the confidence
\* is below 0.7, or the action is none of the five, or the amount is
\* present, not empty and parses to a number below 100; an empty amount
\* and an amount that parses to no number are let through.
C10_InvalidExactlyWhen ==
    probe.asked =>
        (~probe.answer <=>
            \/ probe.decision.confidence < ConfidenceFloor
            \/ probe.decision.action \notin
                  {"rebalance", "hold", "bridge", "lend", "swap"}
            \/ AmountBelowMin(probe.decision))

\* the validator has accepted the amount "abc"
C10_Witness ==
    /\ probe.asked /\ probe.answer
    /\ Has(probe.decision, "amount")
    /\ probe.decision.amount = <<"a", "b", "c">>

\* a chain, token or amount field of the decision is missing
FieldMissing(d) ==
    \E f \in {"fromChain", "toChain", "token", "amount"} : ~Has(d, f)

\* C11: an answer with action rebalance or bridge does not pass validation
\* when its source chain, destination chain, token or amount is missing
\* (the oracle adapter hands over no decision) or when its amount parses
\* to a number below 100 (the cycle rejects it); so the cycle never goes on
\* to execute and record it.
C11_IncompleteOrSmallRejected ==
    (probe.asked /\ Has(probe, "verdict")
       /\ probe.decision.action \in {"rebalance", "bridge"}) =>
        /\ FieldMissing(probe.decision) => probe.verdict = "noDecision"
        /\ AmountBelowMin(probe.decision) => probe.verdict # "execute"
        /\ (AmountBelowMin(probe.decision)
              /\ ~FieldMissing(probe.decision)
              /\ probe.decision.token # "") => probe.verdict = "rejected"

\* a bridge of amount "150" without its token has been turned away by the
\* oracle adapter
C11_Witness ==
    /\ probe.asked /\ Has(probe, "verdict")
    /\ probe.decision.action = "bridge"
    /\ probe.decision.confidence = 90
    /\ ~Has(probe.decision, "token")
    /\ Has(probe.decision, "amount")
    /\ probe.decision.amount = <<"1", "5", "0">>
    /\ probe.verdict = "noDecision"

(***************************************************************************)
(* Properties of the strategy monitor.                                     *)
(***************************************************************************)
\* a call of the monitor has completed and the observer holds its outcome
MonitorObserved == mlast.kind # "none"

\* C12: a call of StrategyMonitor.evaluateAndExecute made while the
\* emergency-stop toggle is set returns null and does not call the engine,
\* whatever the time since the last evaluation, the gas prices and the
\* cached market data are.
C12_EmergencyStopRejects ==
    /\ \A t \in Triggers :
          mpc[t].at # "idle" => ~mpc[t].emergencyAtCall
    /\ (MonitorObserved /\ mlast.emergencyAtCall) =>
          (mlast.kind = "null" /\ ~mlast.invoked)

\* a call has been turned away under the emergency stop although an
\* earlier evaluation lies a full interval back
C12_Witness ==
    /\ MonitorObserved /\ mlast.emergencyAtCall /\ mlast.kind = "null"
    /\ emergencyStopActivated
    /\ lastEvaluation > 0
    /\ ~TooSoon(env, now, lastEvaluation)

\* C13: a call made less than the minimum interval after a call last came
\* back from the engine, with a result, with null or with an error, is
\* turned away by the time throttle: it never gets to the engine's cycle.
C13_ThrottleCountsAttempts ==
    \A t \in Triggers : mpc[t].at = "engine" => ~mpc[t].recentAtCall

\* the gas price ceiling that is configured
Ceiling == IF Has(env, "MAX_GAS_PRICE") THEN 120 ELSE 100

\* the reason the monitor gives for a gas price
GasTooHigh(digits) ==
    [text |-> "Gas price too high: ", value |-> digits, unit |-> " gwei"]

\* a call has been decided and the gas price API has answered
Decided == query.kind = "gate"

\* the reasons the decided call has collected
Reasons ==
    IF Has(query.response, "riskCheck")
    THEN query.response.riskCheck.reasons
    ELSE <<>>

\* the number of reasons collected that are about a gas price
GasReasonCount ==
    Cardinality({i \in 1..Len(Reasons) :
                    Reasons[i].text = "Gas price too high: "})

\* some data point of the cache has a 24-hour price change of more than
\* 10% in absolute value
Hot ==
    \E ch \in DOMAIN marketDataCache :
        \E tk \in DOMAIN marketDataCache[ch] :
            LET data == marketDataCache[ch][tk]
            IN  /\ Has(data, "priceChange24h")
                /\ (data.priceChange24h > 100
                       \/ data.priceChange24h < 0 - 100)

\* the number of reasons collected that are about volatility
HotReasonCount ==
    Cardinality({i \in 1..Len(Reasons) :
                    Reasons[i].text = "High market volatility detected: "})

\* C14: when the gas price of a monitored network is above the configured
\* ceiling the call is not admitted and the engine is not called; the
\* risk checks give one gas reason for each network above the ceiling and
\* none for a price equal to it; with the default ceiling 100, one network
\* at 150, the other not above 100 and no volatile data, they answer
\* passed = false with reasons exactly ["Gas price too high: 150 gwei"].
C14_GasAboveCeilingRejects ==
    (Decided /\ query.prices # GasFailed) =>
        LET above == {i \in 1..2 : query.prices[i] > Ceiling}
        IN  /\ above # {} => ~query.response.invoked
            /\ Has(query.response, "riskCheck") =>
                  /\ GasReasonCount = Cardinality(above)
                  /\ \A i \in above :
                        \E j \in 1..Len(Reasons) :
                            Reasons[j] =
                               GasTooHigh(NumToString(query.prices[i]))
                  /\ above # {} => ~query.response.riskCheck.passed
                  /\ (Ceiling = 100 /\ ~Hot
                        /\ query.prices \in {<<150, 100>>, <<100, 150>>})
                      => query.response.riskCheck =
                            [passed |-> FALSE,
                             reasons |-> <<GasTooHigh(<<"1", "5", "0">>)>>]

\* polygon's gas price 150 alone has kept an active monitor from calling
\* the engine, ethereum's being at the ceiling 100
C14_Witness ==
    /\ Decided /\ query.prices = <<100, 150>>
    /\ ~Has(env, "MAX_GAS_PRICE") /\ ~Hot
    /\ query.response.why = "risk"
    /\ ~query.response.invoked
    /\ Len(Reasons) = 1

\* C15: when a data point of the cache has a 24-hour price change above
\* 10% in absolute value, negative ones included, the call is not admitted
\* and the risk checks give the volatility reason; when no data point has,
\* they give no volatility reason, and the call is admitted if no gas
\* price is above the ceiling.
C15_VolatilityRejects ==
    Decided =>
        /\ Hot => ~query.response.invoked
        /\ (Has(query.response, "riskCheck")
              /\ query.prices # GasFailed) =>
              /\ HotReasonCount = (IF Hot THEN 1 ELSE 0)
              /\ Hot => ~query.response.riskCheck.passed
              /\ (~Hot /\ GasReasonCount = 0) =>
                    /\ query.response.riskCheck.passed
                    /\ query.response.invoked

\* a price change of -15% of the second token alone has kept an active
\* monitor from calling the engine
C15_Witness ==
    /\ Decided /\ query.response.why = "risk"
    /\ Reasons # <<>> /\ GasReasonCount = 0 /\ HotReasonCount = 1
    /\ Has(marketDataCache, "ethereum")
    /\ DOMAIN marketDataCache["ethereum"] = {"USDC", "WETH"}
    /\ marketDataCache["ethereum"]["USDC"] = [priceChange24h |-> 100]
    /\ marketDataCache["ethereum"]["WETH"] = [priceChange24h |-> 0 - 150]

\* the time throttle is violated: the last evaluation is less than the
\* configured interval back
Throttled ==
    now - lastEvaluation <
        (IF Has(env, "MIN_EVALUATION_INTERVAL") THEN 450000 ELSE 300000)

\* the number of admission conditions that are violated at the call: the
\* time throttle, the gas price of each network, the volatility (the
\* concentration check is never violated)
ViolatedCount ==
    (IF Throttled THEN 1 ELSE 0)
    + Cardinality({i \in 1..2 : query.prices[i] > Ceiling})
    + (IF Hot THEN 1 ELSE 0)

\* C16: when several admission conditions are violated at a call of a
\* running monitor, the answer holds one reason for every one of them.
C16_AllReasonsCollected ==
    (Decided /\ isActive /\ ~emergencyStopActivated
       /\ query.prices # GasFailed /\ ViolatedCount >= 2) =>
        Len(Reasons) = ViolatedCount

\* the ways a call is turned away before the engine's cycle: the monitor
\* is stopped or under the emergency stop, the throttle, a failed risk
\* check, a risk check that itself failed, the engine's in-flight guard
GuardOutcomes == {"inactive", "throttle", "risk", "riskError", "busy"}

\* C20: a call of StrategyMonitor.evaluateAndExecute that is turned away
\* by the risk gate or by the engine's in-flight guard completes by
\* returning null; only the engine's cycle raises an error to the caller.
C20_GuardOutcomesReturnNull ==
    /\ (MonitorObserved /\ mlast.why \in GuardOutcomes) =>
          mlast.kind = "null"
    /\ (MonitorObserved /\ mlast.kind = "throw") =>
          (mlast.why = "engine" /\ mlast.invoked)

\* the gas price could not be fetched and the call returned null
C20_Witness ==
    /\ MonitorObserved
    /\ mlast.why = "riskError"
    /\ mlast.kind = "null"
    /\ ~mlast.invoked

(***************************************************************************)
(* Properties of the ledger.                                               *)
(***************************************************************************)
Min(a, b) == IF a <= b THEN a ELSE b

\* C17: after k appends the ledger holds exactly the last
\* min(k, HistoryLimit) appended records in insertion order, in every
\* state between operations; after HistoryLimit + 1 appends only the
\* oldest record is missing.
C17_LedgerIsLastAppended ==
    LET k == Len(appended)
        m == Min(k, HistoryLimit)
    IN  /\ Len(decisionHistory) <= HistoryLimit
        /\ Len(decisionHistory) = m
        /\ \A i \in 1..m : decisionHistory[i] = appended[k - m + i]
        /\ k = HistoryLimit + 1 =>
              /\ decisionHistory = Tail(appended)
              /\ \A i \in 1..m : decisionHistory[i] # appended[1]

C17_Witness ==
    /\ Len(appended) = HistoryLimit + 1
    /\ Len(decisionHistory) = HistoryLimit
    /\ decisionHistory[1] = appended[2]
    /\ decisionHistory[HistoryLimit] = appended[HistoryLimit + 1]

\* C18: getDecisionHistory(n) answers, for every n >= 0, at most n
\* records: the min(n, size) most recently appended records of the
\* ledger, the newest first.
C18_HistoryAtMostLimit ==
    query.kind = "history" =>
        LET h == decisionHistory
            a == query.answer
            m == Min(query.limit, Len(h))
        IN  /\ Len(a) <= query.limit
            /\ Len(a) = m
            /\ \A i \in 1..m : a[i] = h[Len(h) - i + 1]

\* the sum of the values of a counting object
RECURSIVE SumOfCounts(_)
SumOfCounts(counts) ==
    IF DOMAIN counts = {}
    THEN 0
    ELSE LET a == CHOOSE x \in DOMAIN counts : TRUE
         IN  counts[a]
               + SumOfCounts([x \in DOMAIN counts \ {a} |-> counts[x]])

\* the indices of the stored records whose execution succeeded
Succeeded == {i \in 1..Len(decisionHistory) :
                 decisionHistory[i].executionResult.success}

\* C19: getStats() reflects the ledger: totalDecisions is the number of
\* stored records, successfulDecisions the number of those that succeeded
\* (at most the total), successRate is 100 * successes / total at the
\* nearest hundredth and 0 for an empty ledger, and the values of
\* actionCounts sum to totalDecisions.
C19_StatsReflectLedger ==
    query.kind = "stats" =>
        LET stats == query.answer
            total == Len(decisionHistory)
            successes == Cardinality(Succeeded)
        IN  /\ stats.totalDecisions = total
            /\ stats.successfulDecisions = successes
            /\ stats.successfulDecisions <= stats.totalDecisions
            /\ total = 0 => stats.successRate = 0
            /\ total > 0 =>
                  2 * Abs(stats.successRate * total
                            - 100 * 100 * successes) <= total
            /\ SumOfCounts(stats.actionCounts) = stats.totalDecisions

C19_Witness ==
    /\ query.kind = "stats"
    /\ Len(decisionHistory) = 3
    /\ Cardinality(Succeeded) = 2
    /\ query.answer.successRate = 6667
    /\ DOMAIN query.answer.actionCounts = {"hold", "rebalance"}
    /\ query.answer.actionCounts["hold"] = 2

StepOf(at) ==
    CASE at = "idle" -> 0
      [] at \in {"tokenData", "lendingRates"} -> 1
      [] at \in {"vaultInfo", "tokenBalance"} -> 2
      [] at = "oracle" -> 3
      [] at = "submit" -> 4

\* C22: a cycle goes through its steps in the order market snapshot,
\* portfolio, oracle call, validation, submission, ledger append, return,
\* each entered once and after the one before: a submission starts only
\* from the oracle's answer and for a decision that validation accepts,
\* and the ledger changes only when a call returns its result, after the
\* submission if there was one.
C22_StepsInOrder ==
    [][
        /\ \A c \in Callers :
              /\ pc'[c] # "idle" =>
                    StepOf(pc'[c]) \in {StepOf(pc[c]), StepOf(pc[c]) + 1}
              /\ (pc[c] \in {"oracle", "submit"} /\ pc'[c] = pc[c]) =>
                    loc'[c] = loc[c]
              /\ (pc'[c] = "submit" /\ pc[c] # "submit") =>
                    /\ pc[c] = "oracle"
                    /\ loc'[c].decision # NoDecision
                    /\ validateDecision(loc'[c].decision)
                    /\ decisionHistory' = decisionHistory
        /\ (decisionHistory' # decisionHistory) =>
              (\E c \in Callers :
                  /\ pc[c] \in {"oracle", "submit"} /\ pc'[c] = "idle"
                  /\ last'.kind = "result"
                  /\ "submit" \in last'.api => pc[c] = "submit"
                  /\ {"data", "oracle"} \subseteq last'.api)
    ]_vars

\* a cycle has gone through every step and returned its result
C22_Witness ==
    /\ Observed /\ last.kind = "result"
    /\ last.api = {"data", "chain", "oracle", "submit"}
    /\ Len(decisionHistory) = last.totalBefore + 1
    /\ Newest.executionResult = last.result

\* C23: provided every collaborator call returns or fails, whenever the
\* in-flight flag is set there comes a state in which the flag is false
\* and no cycle is suspended any more: the cycle that set it has
\* terminated, and a later call is admitted.
C23_CycleTerminates ==
    isExecuting ~> (~isExecuting /\ Active = {})

\* a call has been admitted after an earlier cycle returned its result
C23_Witness ==
    /\ Observed /\ last.kind = "result"
    /\ isExecuting
    /\ Active # {}
    /\ \A c \in Active : Len(loc[c].histAtCall) >= 1

ArrivesWhileBusy(c) ==
    /\ isExecuting /\ pc[c] = "idle"
    /\ \/ pc'[c] # "idle"
       \/ last' # last /\ last'.why = "skipped"

\* C28: a call that arrives while the in-flight flag is set is skipped and
\* changes nothing: the flag stays set, the ledger and the running cycle
\* are as before; so is every further call while the cycle runs.
C28_SkipChangesNothing ==
    [][\A c \in Callers :
          ArrivesWhileBusy(c) =>
              /\ last'.kind = "null" /\ last'.why = "skipped"
              /\ isExecuting'
              /\ decisionHistory' = decisionHistory
              /\ pc' = pc
              /\ loc' = loc]_vars

\* a call has been skipped; the cycle that runs is still suspended and the
\* flag still set
C28_Witness ==
    /\ Observed /\ last.kind = "null" /\ last.why = "skipped"
    /\ last.busyAtCall
    /\ isExecuting
    /\ \E c \in Callers : pc[c] = "submit"
    /\ Len(decisionHistory) = last.totalBefore

(***************************************************************************)
(* Properties of the monitor under concurrent triggers.                    *)
(***************************************************************************)
\* the engine's cycle begins: the in-flight flag is set
CycleBegins == ~isExecuting /\ isExecuting'

\* C25: from the completion of emergencyStop() until start() is called
\* again no cycle of the engine begins, also for a monitor call that was
\* waiting for its risk checks when the stop came.
C25_NoCycleAfterEmergencyStop ==
    [][(emergencyStopActivated /\ emergencyStopActivated') =>
          ~CycleBegins]_vars

\* the call of trigger t calls decisionEngine.evaluateAndExecute
EngineCalled(t) ==
    /\ mpc[t].at = "gasPrice"
    /\ \/ mpc'[t].at = "engine"
       \/ mpc'[t].at = "idle" /\ mlast'.invoked

\* the minimum evaluation interval that is configured
MinInterval ==
    IF Has(env, "MIN_EVALUATION_INTERVAL") THEN 450000 ELSE 300000

\* C26: two calls of decisionEngine.evaluateAndExecute that the monitor
\* makes are at least the minimum evaluation interval apart, also when
\* the calls of two triggers overlap.
C26_AdmittedCyclesApart ==
    [][\A t \in Triggers :
          (EngineCalled(t) /\ lastCall > 0) =>
              now - lastCall >= MinInterval]_vars

\* the cached data point of the pair makes checkMarketVolatility fail
HotAt(cache, ch, tk) ==
    /\ Has(cache, ch)
    /\ Has(cache[ch], tk)
    /\ IsVolatile(cache[ch][tk])

\* C29: a data point with a 24-hour price change above the threshold
\* blocks admission until a newer successful fetch of its pair replaces
\* it: it does not leave the cache while updateMarketData runs or when
\* the fetch of its pair fails.
C29_VolatilityKept ==
    [][\A i \in 1..MaxChains, j \in 1..MaxCacheTokens :
          (HotAt(marketDataCache, chains[i], tokens[j])
             /\ ~HotAt(marketDataCache', chains[i], tokens[j])) =>
              /\ Has(marketDataCache', chains[i])
              /\ Has(marketDataCache'[chains[i]], tokens[j])]_vars

\* a call of trigger t arrives at the monitor: it is answered at its entry
\* in this step, or it goes on to its risk checks
MonitorCallArrives(t) ==
    /\ mpc[t].at = "idle"
    /\ \/ mpc'[t].at # "idle"
       \/ mlast' # mlast /\ mlast'.why \in {"inactive", "throttle"}

\* C30: a call of the monitor made while it is not active, before start()
\* or after stop(), returns null at its entry: no risk check is started,
\* the engine is not called and lastEvaluation is not changed.
C30_InactiveAdmitsNothing ==
    [][\A t \in Triggers :
          (~isActive /\ MonitorCallArrives(t)) =>
              /\ mlast'.kind = "null" /\ mlast'.why = "inactive"
              /\ ~mlast'.invoked
              /\ mpc' = mpc
              /\ lastEvaluation' = lastEvaluation
              /\ lastCall' = lastCall
              /\ isExecuting' = isExecuting]_vars

\* a call has been turned away by a monitor that had run and was stopped
\* with stop()
C30_Witness ==
    /\ MonitorObserved /\ mlast.kind = "null" /\ mlast.why = "inactive"
    /\ ~mlast.emergencyAtCall
    /\ ~isActive /\ ~emergencyStopActivated
    /\ lastEvaluation > 0
    /\ ~TooSoon(env, now, lastEvaluation)

(***************************************************************************)
(* Properties of what the cycle submits.                                   *)
(***************************************************************************)
\* the cycle has called blockchainClient.executeAIDecision for the answer
Submitted ==
    probe.asked /\ Has(probe, "submission") /\ probe.submission.called

====
